---- MODULE Spec2Model ----
(***************************************************************************)
(* A model of ESDoc.generate (src/src/ESDoc.js): the synchronous body of   *)
(* the promise executor, the AST persistence stream and its completion     *)
(* events, the publish phase, the pure function _resolveDuplication and    *)
(* the package-aware walk _walkRoot.                                       *)
(*                                                                         *)
(* JavaScript runs each callback to completion: the events of the          *)
(* persistence stream are delivered only once the executor has returned    *)
(* or thrown.  The 'finish' event of the stream is delivered as an event   *)
(* of its own, after end() has been called and every write has completed.  *)
(***************************************************************************)
EXTENDS Integers, Sequences, FiniteSets, TLC

\* ------------------------------------------------------------------ bounds

\* At most this many entries in the source directory.
MaxEntries == 3

\* At most this many records in an input of _resolveDuplication (SpecDup).
MaxDocs == 3

\* At most this many paths under the root directory (SpecRoot).
MaxRootEntries == 6

\* ------------------------------------------------------------- configuration

\* A configuration key that is not set.
Undefined == "undefined"

\* The __docId__ of a record that has none (the synthetic records).
UndefinedId == 0

BaseConfig ==
  [root |-> Undefined, source |-> Undefined, package |-> Undefined,
   destination |-> Undefined, includes |-> <<>>, excludes |-> <<>>,
   index |-> Undefined, oldKey |-> FALSE]

\* The configurations generate is called with.  includes/excludes = <<>> stands
\* for an absent list (an empty list is truthy in JavaScript, and is not used).
Configs ==
  { [BaseConfig EXCEPT !.source = "./src", !.destination = "./out"],
    [BaseConfig EXCEPT !.source = "./src", !.destination = "./out",
                       !.package = "./package.json", !.index = "./DOC.md",
                       !.includes = <<"^lib/", "\\.md$", "\\.js$">>,
                       !.excludes = <<"\\.config\\.js$", "^z">>],
    [BaseConfig EXCEPT !.source = "./src", !.destination = "./out",
                       !.oldKey = TRUE],
    [BaseConfig EXCEPT !.root = "./packages", !.destination = "./out"],
    [BaseConfig EXCEPT !.root = "./packages", !.source = "./src",
                       !.destination = "./out"],
    [BaseConfig EXCEPT !.root = "./packages", !.package = "./package.json",
                       !.destination = "./out"],
    [BaseConfig EXCEPT !.destination = "./out"],
    [BaseConfig EXCEPT !.source = "./src"],
    [BaseConfig EXCEPT !.root = "./packages"] }

\* The assertions at the head of generate.
\* A fault: the check of destination is forgotten.
ValidConfigNoDestination(c) ==
  /\ (c.root # Undefined \/ c.source # Undefined)
  /\ (c.root # Undefined => c.source = Undefined /\ c.package = Undefined)

ValidConfig(c) ==
  /\ (c.root # Undefined \/ c.source # Undefined)
  /\ (c.root # Undefined => c.source = Undefined /\ c.package = Undefined)
  /\ c.destination # Undefined

\* _checkOldConfig: a key of the old configuration format is present.
HasOldKey(c) == c.oldKey

_setDefaultConfig(c) ==
  LET c1 == IF c.includes = <<>> THEN [c EXCEPT !.includes = <<"\\.js$">>] ELSE c
      c2 == IF c1.excludes = <<>>
            THEN [c1 EXCEPT !.excludes = <<"\\.config\\.js$", "\\.test\\.js$">>]
            ELSE c1
      c3 == IF c2.index = Undefined THEN [c2 EXCEPT !.index = "./README.md"] ELSE c2
  IN  IF c3.source # Undefined /\ c3.package = Undefined
      THEN [c3 EXCEPT !.package = "./package.json"]
      ELSE c3

\* What a plugin's onHandleConfig may return: the configuration as it is, or a
\* configuration whose excludes are replaced.
ConfigHooks == {"identity", "setExcludes"}

ApplyConfigHook(h, c) ==
  IF h = "setExcludes" THEN [c EXCEPT !.excludes = <<"^lib/">>] ELSE c

\* ------------------------------------------------------------- source tree

\* The names readdirSync can list in the source directory, in its order.
EntryOrder == <<"a.js", "b.test.js", "lib", "m.md", "z.js">>

EntryNames == {EntryOrder[i] : i \in 1..Len(EntryOrder)}

SourceDir == "."

Directories == {SourceDir, "lib"}

\* The source trees: the entries of the source directory; lib is a directory.
Trees == {t \in SUBSET EntryNames : Cardinality(t) <= MaxEntries}

Readdir(t, dirPath) ==
  IF dirPath = SourceDir
  THEN SelectSeq(EntryOrder, LAMBDA e : e \in t)
  ELSE IF dirPath = "lib" THEN <<"lib/c.js", "lib/d.config.js">> ELSE <<>>

RECURSIVE WalkEntries(_, _, _)
\* The loop of _walk over the entries of one directory, from entry i on.
WalkEntries(t, entries, i) ==
  IF i > Len(entries) THEN <<>>
  ELSE LET entryPath == entries[i]
           here == IF entryPath \in Directories
                   THEN WalkEntries(t, Readdir(t, entryPath), 1)
                   ELSE <<entryPath>>
       IN  here \o WalkEntries(t, entries, i + 1)

\* The file callbacks _walk makes, in order, for a directory.
_walk(t, dirPath) == WalkEntries(t, Readdir(t, dirPath), 1)

\* relativeFilePath.match(reg), for the paths and patterns of the model.
Match(relativeFilePath, reg) ==
  CASE reg = "\\.js$" ->
         relativeFilePath \in {"a.js", "b.test.js", "z.js", "lib/c.js", "lib/d.config.js"}
    [] reg = "\\.test\\.js$"   -> relativeFilePath \in {"b.test.js"}
    [] reg = "\\.config\\.js$" -> relativeFilePath \in {"lib/d.config.js"}
    [] reg = "\\.md$"          -> relativeFilePath \in {"m.md"}
    [] reg = "^lib/"           -> relativeFilePath \in {"lib/c.js", "lib/d.config.js"}
    [] reg = "^z"              -> relativeFilePath \in {"z.js"}
    [] OTHER -> FALSE

RECURSIVE AnyMatch(_, _, _)
\* for (const reg of regs) if (relativeFilePath.match(reg)) ...
AnyMatch(relativeFilePath, regs, i) ==
  IF i > Len(regs) THEN FALSE
  ELSE IF Match(relativeFilePath, regs[i]) THEN TRUE
  ELSE AnyMatch(relativeFilePath, regs, i + 1)

\* A fault: the exclude patterns are not consulted.
AcceptedIgnoringExcludes(relativeFilePath, incs, excs) ==
  AnyMatch(relativeFilePath, incs, 1)

\* The filter at the head of walkCallback.
Accepted(relativeFilePath, incs, excs) ==
  IF ~AnyMatch(relativeFilePath, incs, 1) THEN FALSE
  ELSE ~AnyMatch(relativeFilePath, excs, 1)

\* ------------------------------------------------- the package-aware walk

\* The root directory the package-aware walk starts in.
RootDir == "."

\* The paths that can exist under the root directory, in the order in which
\* readdirSync lists them and a depth-first walk meets them.
RootOrder ==
  << "package.json", "pkg", "pkg/lib", "pkg/lib/l.js", "pkg/package.json",
     "pkg/q.js", "pkg/src", "pkg/src/p.js", "src", "src/s.js", "t.js", "zdir",
     "zdir/w.js" >>

RootPaths == {RootOrder[i] : i \in 1..Len(RootOrder)}

\* The paths that are directories when they exist; the others are files.
RootDirNames == {"pkg", "pkg/lib", "pkg/src", "src", "zdir"}

\* path.resolve(dirPath, name); a path the model has no name for never exists.
RootJoin(dirPath, name) ==
  CASE dirPath = RootDir /\ name \in {"package.json", "pkg", "src", "t.js", "zdir"} ->
         name
    [] dirPath = "pkg" /\ name = "lib"          -> "pkg/lib"
    [] dirPath = "pkg" /\ name = "package.json" -> "pkg/package.json"
    [] dirPath = "pkg" /\ name = "q.js"         -> "pkg/q.js"
    [] dirPath = "pkg" /\ name = "src"          -> "pkg/src"
    [] dirPath = "pkg/lib" /\ name = "l.js"     -> "pkg/lib/l.js"
    [] dirPath = "pkg/src" /\ name = "p.js"     -> "pkg/src/p.js"
    [] dirPath = "src" /\ name = "s.js"         -> "src/s.js"
    [] dirPath = "zdir" /\ name = "w.js"        -> "zdir/w.js"
    [] OTHER -> "nowhere"

\* The directory a path is an entry of.
RootParent(entryPath) ==
  CASE entryPath \in {"pkg/lib", "pkg/package.json", "pkg/q.js", "pkg/src"} -> "pkg"
    [] entryPath = "pkg/lib/l.js" -> "pkg/lib"
    [] entryPath = "pkg/src/p.js" -> "pkg/src"
    [] entryPath = "src/s.js"     -> "src"
    [] entryPath = "zdir/w.js"    -> "zdir"
    [] OTHER -> RootDir

\* The trees under the root directory: an entry exists only in a directory that
\* exists.
RootTrees ==
  {t \in SUBSET RootPaths :
     /\ Cardinality(t) <= MaxRootEntries
     /\ \A entryPath \in t :
          RootParent(entryPath) # RootDir =>
            RootParent(entryPath) \in t /\ RootParent(entryPath) \in RootDirNames}

\* What a package.json holds: text that does not parse, or an object whose
\* directories.src is absent or names an entry of its directory.
UnparseableDescriptor == "unparseable"

Descriptors == {UnparseableDescriptor, Undefined, "lib", "q.js"}

PackageJsons(t) == t \cap {"package.json", "pkg/package.json"}

\* stat.isDirectory(), for a path that exists
IsDirectory(t, entryPath) ==
  entryPath = RootDir \/ (entryPath \in t /\ entryPath \in RootDirNames)

\* fs.readdirSync(dirPath), for a directory that exists
RootReaddir(t, dirPath) ==
  SelectSeq(RootOrder, LAMBDA entryPath : entryPath \in t /\ RootParent(entryPath) = dirPath)

\* A fault: the descriptor of a directory is never noticed.
HasPackageJsonNever(t, dirPath) == FALSE

\* entries.includes('package.json')
HasPackageJson(t, dirPath) == RootJoin(dirPath, "package.json") \in t

\* (packageObj.directories && packageObj.directories.src) || 'src'
SrcName(packageObj) == IF packageObj = Undefined THEN "src" ELSE packageObj

\* callback(packagePath, packageObj) and callback(entryPath)
DescriptorCallback(packagePath, packageObj) ==
  [path |-> packagePath, packageObj |-> <<packageObj>>]

FileCallback(entryPath) == [path |-> entryPath, packageObj |-> <<>>]

\* What a call has done when it is over: the callbacks it made, in order, and
\* whether it ended by an exception.
Returned(callbacks) == [callbacks |-> callbacks, threw |-> FALSE]

Threw(callbacks) == [callbacks |-> callbacks, threw |-> TRUE]

After(callbacks, call) == [call EXCEPT !.callbacks = callbacks \o call.callbacks]

RECURSIVE _walkRoot(_, _, _, _)
RECURSIVE WalkRootEntries(_, _, _, _)

\* _walkRoot(dirPath, callback).  hasThis: the call was made as a method of the
\* class; _walk calls its recurse argument as a plain function, and then this
\* is undefined and this._walkRoot and this._walk raise a TypeError.
\* readdirSync throws on a path that is not an existing directory.
_walkRoot(t, d, dirPath, hasThis) ==
  IF ~IsDirectory(t, dirPath) THEN Threw(<<>>)
  ELSE IF HasPackageJson(t, dirPath)
  THEN LET packagePath == RootJoin(dirPath, "package.json")
           packageObj == d[packagePath]
       IN  IF packageObj = UnparseableDescriptor THEN Returned(<<>>)
           ELSE LET srcDir == RootJoin(dirPath, SrcName(packageObj))
                    made == <<DescriptorCallback(packagePath, packageObj)>>
                IN  IF ~hasThis THEN Threw(made)
                    ELSE After(made, _walkRoot(t, d, srcDir, TRUE))
  ELSE IF ~hasThis THEN Threw(<<>>)
       ELSE WalkRootEntries(t, d, RootReaddir(t, dirPath), 1)

\* The loop of _walk(dirPath, callback, this._walkRoot), from entry i on.
WalkRootEntries(t, d, entries, i) ==
  IF i > Len(entries) THEN Returned(<<>>)
  ELSE LET entryPath == entries[i]
           here == IF IsDirectory(t, entryPath)
                   THEN _walkRoot(t, d, entryPath, FALSE)
                   ELSE Returned(<<FileCallback(entryPath)>>)
       IN  IF here.threw THEN here
           ELSE After(here.callbacks, WalkRootEntries(t, d, entries, i + 1))

\* ------------------------------------------------------------- extraction

\* What the extraction collaborator finds in each file: kind and longname.
FileDocs(filePath) ==
  CASE filePath = "a.js" ->
         << [kind |-> "member", longname |-> "Foo#x"],
            [kind |-> "method", longname |-> "Foo#x"] >>
    [] filePath = "lib/c.js" ->
         << [kind |-> "member", longname |-> "Foo#y"],
            [kind |-> "class", longname |-> "Foo"] >>
    [] filePath = "z.js" ->
         << [kind |-> "member", longname |-> "Foo#y"] >>
    [] filePath = "b.test.js" ->
         << [kind |-> "function", longname |-> "test"] >>
    [] filePath = "lib/d.config.js" ->
         << [kind |-> "variable", longname |-> "conf"] >>
    [] OTHER -> <<>>

\* The records of a file, numbered from docId on by the extraction collaborator.
NewDocs(filePath, docId) ==
  [i \in 1..Len(FileDocs(filePath)) |->
     [docId |-> docId + i - 1, kind |-> FileDocs(filePath)[i].kind,
      longname |-> FileDocs(filePath)[i].longname, file |-> filePath]]

\* What the parser and the extraction collaborator may do with a file.
Outcomes == {"ok", "parseError", "extractError"}

\* A fault: a parse failure is re-raised like an extraction error.
_traverseRethrowing(filePath, outcome, docId) ==
  IF outcome = "ok"
  THEN [status |-> "ok", results |-> NewDocs(filePath, docId)]
  ELSE [status |-> "throw", results |-> <<>>]

\* _traverse: null on a parse failure, a throw on an extraction error.
_traverse(filePath, outcome, docId) ==
  IF outcome = "parseError" THEN [status |-> "null", results |-> <<>>]
  ELSE IF outcome = "extractError" THEN [status |-> "throw", results |-> <<>>]
  ELSE [status |-> "ok", results |-> NewDocs(filePath, docId)]

_generateForIndex(c) ==
  [docId |-> UndefinedId, kind |-> "index", longname |-> c.index, file |-> Undefined]

_generateForOldPackageJSON(c) ==
  [docId |-> UndefinedId, kind |-> "packageJSON", longname |-> c.package,
   file |-> Undefined]

\* ------------------------------------------------------ _resolveDuplication

Includes(seq, x) == \E i \in 1..Len(seq) : seq[i] = x

RECURSIVE InsertId(_, _)
\* x put into the ascending sequence s, by the comparator a < b ? -1 : 1.
InsertId(s, x) ==
  IF s = <<>> THEN <<x>>
  ELSE IF x < Head(s) THEN <<x>> \o s
  ELSE <<Head(s)>> \o InsertId(Tail(s), x)

RECURSIVE SortIds(_)
\* ids.sort((a, b) => a < b ? -1 : 1)
SortIds(ids) ==
  IF ids = <<>> THEN <<>> ELSE InsertId(SortIds(Tail(ids)), Head(ids))

DocIds(docs) == [i \in 1..Len(docs) |-> docs[i].docId]

\* A fault: the ids are not sorted before the first one is dropped.
DupRemoveIdsUnsorted(docs, memberDoc) ==
  LET dup == SelectSeq(docs, LAMBDA doc :
               doc.longname = memberDoc.longname /\ doc.kind = "member")
  IN  IF Len(dup) > 1 THEN Tail(DocIds(dup)) ELSE <<>>

\* The ids one member record adds to removeIds when no record of another kind
\* has its longname: all but the lowest id among the members of that longname.
DupRemoveIds(docs, memberDoc) ==
  LET dup == SelectSeq(docs, LAMBDA doc :
               doc.longname = memberDoc.longname /\ doc.kind = "member")
  IN  IF Len(dup) > 1 THEN Tail(SortIds(DocIds(dup))) ELSE <<>>

\* A fault: only a record with a higher id counts as a competitor.
SameLongnameDocLater(docs, memberDoc) ==
  \E i \in 1..Len(docs) :
     /\ docs[i].longname = memberDoc.longname
     /\ docs[i].kind # "member"
     /\ docs[i].docId > memberDoc.docId

\* docs.find(doc => doc.longname === memberDoc.longname && doc.kind !== 'member')
SameLongnameDoc(docs, memberDoc) ==
  \E i \in 1..Len(docs) :
     docs[i].longname = memberDoc.longname /\ docs[i].kind # "member"

RECURSIVE RemoveIdsLoop(_, _, _, _)
\* for (const memberDoc of memberDocs) { ... }
RemoveIdsLoop(docs, memberDocs, i, removeIds) ==
  IF i > Len(memberDocs) THEN removeIds
  ELSE IF SameLongnameDoc(docs, memberDocs[i])
       THEN RemoveIdsLoop(docs, memberDocs, i + 1,
                          Append(removeIds, memberDocs[i].docId))
       ELSE RemoveIdsLoop(docs, memberDocs, i + 1,
                          removeIds \o DupRemoveIds(docs, memberDocs[i]))

\* A fault: the filter drops by longname instead of by id.
_resolveDuplicationByLongname(docs) ==
  LET memberDocs == SelectSeq(docs, LAMBDA doc : doc.kind = "member")
      removeIds == RemoveIdsLoop(docs, memberDocs, 1, <<>>)
      removed == SelectSeq(docs, LAMBDA doc : Includes(removeIds, doc.docId))
  IN  SelectSeq(docs, LAMBDA doc :
        ~\E i \in 1..Len(removed) : removed[i].longname = doc.longname)

_resolveDuplication(docs) ==
  LET memberDocs == SelectSeq(docs, LAMBDA doc : doc.kind = "member")
      removeIds == RemoveIdsLoop(docs, memberDocs, 1, <<>>)
  IN  SelectSeq(docs, LAMBDA doc : ~Includes(removeIds, doc.docId))

\* What a plugin's onHandleDocs may return: the records as they are, or
\* reordered.
DocsHooks == {"identity", "reverse"}

ApplyDocsHook(h, docs) ==
  IF h = "reverse" THEN [i \in 1..Len(docs) |-> docs[Len(docs) + 1 - i]] ELSE docs

\* ------------------------------------------------------------------ state

VARIABLES
  given,       \* the configuration generate was called with
  config,      \* the configuration, as generate holds it
  tree,        \* the entries of the source directory
  step,        \* position of the promise executor in MainSequence
  main,        \* "running", "returned", "thrown" or "exited"
  failure,     \* why the run left its normal course, or "none"
  promise,     \* "pending", "resolved" or "rejected"
  exit,        \* <<>> while the process lives, <<status>> once it has exited
  trace,       \* the lifecycle events so far, in order
  includes,    \* the compiled include patterns
  excludes,    \* the compiled exclude patterns
  walkQueue,   \* the file callbacks the walk has still to make
  walked,      \* the paths the walker has yielded
  traversed,   \* the files handed to _traverse, each with its outcome
  results,     \* the record collection
  nextDocId,   \* the next creation-sequence id
  assembled,   \* <<>> before _resolveDuplication is called, then <<its argument>>
  buffer,      \* the jobs written to the stream and not yet transformed
  writing,     \* the stream waits for transformCallback
  inflight,    \* the jobs whose persistence work has begun and not finished
  ending,      \* end() has been called on the stream
  finishPos,   \* position in onWriteFinish: 0 before it, then 1, 2, 3 = over
  submitted,   \* the jobs written to the stream, in order
  started,     \* the jobs whose transform has been called, in order
  astFiles,    \* the AST files whose write has finished, in order
  indexJson,   \* <<>> before index.json is written, then <<its records>>
  docsIn,      \* SpecDup: an input of _resolveDuplication
  docsOut,     \* SpecDup: its output
  dupPc,       \* SpecDup: "input", "member" or "done"; "off" in Spec
  configHook,  \* <<>> before Plugin.onHandleConfig is called, then <<[arg, result]>>
  docsHook,    \* <<>> before Plugin.onHandleDocs is called, then <<[arg, result]>>
  rootTree,    \* SpecRoot: the paths that exist under the root directory
  rootDesc,    \* SpecRoot: what each package.json holds
  rootOut,     \* SpecRoot: the callbacks of _walkRoot, and whether it threw
  rootPc       \* SpecRoot: "input" or "done"; "off" in Spec

runVars ==
  <<given, config, tree, step, main, failure, promise, exit, trace, includes, excludes,
    walkQueue, walked, traversed, results, nextDocId, assembled>>

streamVars ==
  <<buffer, writing, inflight, ending, finishPos, submitted, started, astFiles,
    indexJson>>

dupVars == <<docsIn, docsOut, dupPc>>

hookVars == <<configHook, docsHook>>

rootVars == <<rootTree, rootDesc, rootOut, rootPc>>

vars == <<runVars, streamVars, dupVars, hookVars, rootVars>>

\* The steps of the promise executor of generate, in the order of its body.
\* A fault: index.json is written before the docs hook has run.
MainSequenceSwapped ==
  << "validate", "checkOldConfig", "init", "onStart", "onHandleConfig",
     "setDefaultConfig", "setup", "walk", "walkCallback", "end", "index",
     "package", "resolveDuplication", "indexJson", "onHandleDocs" >>

\* A fault: the configuration is defaulted before the config hook is called.
MainSequenceDefaultFirst ==
  << "validate", "checkOldConfig", "init", "onStart", "setDefaultConfig",
     "onHandleConfig", "setup", "walk", "walkCallback", "end", "index",
     "package", "resolveDuplication", "onHandleDocs", "indexJson" >>

\* A fault: end() is called on the stream after index.json is written.
MainSequenceEndLast ==
  << "validate", "checkOldConfig", "init", "onStart", "onHandleConfig",
     "setDefaultConfig", "setup", "walk", "walkCallback", "index", "package",
     "resolveDuplication", "onHandleDocs", "indexJson", "end" >>

\* A fault: the legacy package record is appended before the index record.
MainSequencePackageFirst ==
  << "validate", "checkOldConfig", "init", "onStart", "onHandleConfig",
     "setDefaultConfig", "setup", "walk", "walkCallback", "end", "package",
     "index", "resolveDuplication", "onHandleDocs", "indexJson" >>

MainSequence ==
  << "validate", "checkOldConfig", "init", "onStart", "onHandleConfig",
     "setDefaultConfig", "setup", "walk", "walkCallback", "end", "index",
     "package", "resolveDuplication", "onHandleDocs", "indexJson" >>

\* The steps of onWriteFinish, in the order of its body.
\* A fault: Plugin.onComplete is called before the publish phase.
OnWriteFinishSequenceSwapped == << "onComplete", "publish" >>

OnWriteFinishSequence == << "publish", "onComplete" >>

At(name) ==
  /\ main = "running"
  /\ step <= Len(MainSequence)
  /\ MainSequence[step] = name

\* The executor goes on to its next statement, or returns after the last one.
Advance ==
  IF step = Len(MainSequence)
  THEN step' = step /\ main' = "returned"
  ELSE step' = step + 1 /\ main' = main

\* An exception leaves the executor: the promise is rejected.
Throw(why) ==
  /\ main' = "thrown"
  /\ failure' = why
  /\ promise' = IF promise = "pending" THEN "rejected" ELSE promise
  /\ step' = step

\* A fault: fatalError logs the error and the process lives on.
ProcessExitLogOnly(why) ==
  /\ exit' = exit
  /\ failure' = why

\* process.exit(1)
ProcessExit(why) ==
  /\ exit' = <<1>>
  /\ failure' = why

Init ==
  /\ given \in Configs
  /\ config = given
  /\ tree \in Trees
  /\ step = 1
  /\ main = "running"
  /\ failure = "none"
  /\ promise = "pending"
  /\ exit = <<>>
  /\ trace = <<>>
  /\ includes = <<>>
  /\ excludes = <<>>
  /\ walkQueue = <<>>
  /\ walked = <<>>
  /\ traversed = <<>>
  /\ results = <<>>
  /\ nextDocId = 1
  /\ assembled = <<>>
  /\ buffer = <<>>
  /\ writing = FALSE
  /\ inflight = {}
  /\ ending = FALSE
  /\ finishPos = 0
  /\ submitted = <<>>
  /\ started = <<>>
  /\ astFiles = <<>>
  /\ indexJson = <<>>
  /\ docsIn = <<>>
  /\ docsOut = <<>>
  /\ dupPc = "off"
  /\ configHook = <<>>
  /\ docsHook = <<>>
  /\ rootTree = {}
  /\ rootDesc = <<>>
  /\ rootOut = [callbacks |-> <<>>, threw |-> FALSE]
  /\ rootPc = "off"

\* --------------------------------------------------- the promise executor

\* assert(...) x 4
Validate ==
  /\ At("validate")
  /\ IF ValidConfig(config)
     THEN Advance /\ UNCHANGED <<failure, promise>>
     ELSE Throw("validation")
  /\ UNCHANGED <<given, config, tree, exit, trace, includes, excludes, walkQueue,
                 walked, traversed, results, nextDocId, assembled>>
  /\ UNCHANGED <<streamVars, dupVars, hookVars, rootVars>>

\* this._checkOldConfig(config)
CheckOldConfig ==
  /\ At("checkOldConfig")
  /\ IF HasOldKey(config)
     THEN ProcessExit("oldConfig") /\ main' = "exited" /\ step' = step
     ELSE Advance /\ UNCHANGED <<exit, failure>>
  /\ UNCHANGED <<given, config, tree, promise, trace, includes, excludes, walkQueue,
                 walked, traversed, results, nextDocId, assembled>>
  /\ UNCHANGED <<streamVars, dupVars, hookVars, rootVars>>

\* Plugin.init(config.plugins)
PluginInit ==
  /\ At("init")
  /\ trace' = Append(trace, "init")
  /\ Advance
  /\ UNCHANGED <<given, config, tree, failure, promise, exit, includes, excludes,
                 walkQueue, walked, traversed, results, nextDocId, assembled>>
  /\ UNCHANGED <<streamVars, dupVars, hookVars, rootVars>>

\* Plugin.onStart()
PluginOnStart ==
  /\ At("onStart")
  /\ trace' = Append(trace, "onStart")
  /\ Advance
  /\ UNCHANGED <<given, config, tree, failure, promise, exit, includes, excludes,
                 walkQueue, walked, traversed, results, nextDocId, assembled>>
  /\ UNCHANGED <<streamVars, dupVars, hookVars, rootVars>>

\* config = Plugin.onHandleConfig(config)
PluginOnHandleConfig ==
  /\ At("onHandleConfig")
  /\ \E h \in ConfigHooks :
       /\ config' = ApplyConfigHook(h, config)
       /\ configHook' = Append(configHook, [arg |-> config, result |-> config'])
  /\ trace' = Append(trace, "onHandleConfig")
  /\ Advance
  /\ UNCHANGED <<given, tree, failure, promise, exit, includes, excludes,
                 walkQueue, walked, traversed, results, nextDocId, assembled>>
  /\ UNCHANGED <<streamVars, dupVars, docsHook, rootVars>>

\* this._setDefaultConfig(config)
SetDefaultConfig ==
  /\ At("setDefaultConfig")
  /\ config' = _setDefaultConfig(config)
  /\ Advance
  /\ UNCHANGED <<given, tree, failure, promise, exit, trace, includes, excludes,
                 walkQueue, walked, traversed, results, nextDocId, assembled>>
  /\ UNCHANGED <<streamVars, dupVars, hookVars, rootVars>>

\* The patterns are compiled, the source directory is resolved and the stream
\* and its handlers are created.  path.resolve throws on a source that is not a
\* string.
Setup ==
  /\ At("setup")
  /\ includes' = config.includes
  /\ excludes' = config.excludes
  /\ IF config.source = Undefined
     THEN Throw("sourcePath")
     ELSE Advance /\ UNCHANGED <<failure, promise>>
  /\ UNCHANGED <<given, config, tree, exit, trace, walkQueue, walked, traversed,
                 results, nextDocId, assembled>>
  /\ UNCHANGED <<streamVars, dupVars, hookVars, rootVars>>

\* stringifyWriteTransform.write(job): the transform is called at once when the
\* stream is not waiting for a transformCallback, else the job is buffered.
StreamWrite(job) ==
  /\ submitted' = Append(submitted, job)
  /\ IF writing
     THEN /\ buffer' = Append(buffer, job)
          /\ UNCHANGED <<writing, inflight, started>>
     ELSE /\ writing' = TRUE
          /\ inflight' = inflight \cup {[job |-> job, stage |-> "mkdirp"]}
          /\ started' = Append(started, job)
          /\ UNCHANGED buffer

\* this._walk(config.source, walkCallback): the walker reads the directories.
\* config.root is never set here: with root set, source is not, and Setup has
\* thrown.
Walk ==
  /\ At("walk")
  /\ walkQueue' = _walk(tree, SourceDir)
  /\ trace' = Append(trace, "walk")
  /\ Advance
  /\ UNCHANGED <<given, config, tree, failure, promise, exit, includes, excludes,
                 walked, traversed, results, nextDocId, assembled>>
  /\ UNCHANGED <<streamVars, dupVars, hookVars, rootVars>>

\* walkCallback(filePath), for the next file the walker yields.
WalkCallback ==
  /\ At("walkCallback")
  /\ walkQueue # <<>>
  /\ LET filePath == Head(walkQueue) IN
     /\ walkQueue' = Tail(walkQueue)
     /\ walked' = Append(walked, filePath)
     /\ IF ~Accepted(filePath, includes, excludes)
        THEN UNCHANGED <<step, main, failure, promise, traversed, results,
                         nextDocId, buffer, writing, inflight, submitted, started>>
        ELSE \E outcome \in Outcomes :
             LET temp == _traverse(filePath, outcome, nextDocId) IN
             /\ traversed' = Append(traversed, [file |-> filePath, outcome |-> outcome])
             /\ CASE temp.status = "throw" ->
                       /\ Throw("extraction")
                       /\ UNCHANGED <<results, nextDocId, buffer, writing,
                                      inflight, submitted, started>>
                  [] temp.status = "null" ->
                       UNCHANGED <<step, main, failure, promise, results,
                                   nextDocId, buffer, writing, inflight,
                                   submitted, started>>
                  [] OTHER ->
                       /\ results' = results \o temp.results
                       /\ nextDocId' = nextDocId + Len(temp.results)
                       /\ StreamWrite(filePath)
                       /\ UNCHANGED <<step, main, failure, promise>>
  /\ UNCHANGED <<given, config, tree, exit, trace, includes, excludes, assembled>>
  /\ UNCHANGED <<ending, finishPos, astFiles, indexJson, dupVars, hookVars, rootVars>>

\* The walker has yielded its last file and returns.
WalkReturn ==
  /\ At("walkCallback")
  /\ walkQueue = <<>>
  /\ Advance
  /\ UNCHANGED <<given, config, tree, failure, promise, exit, trace, includes, excludes,
                 walkQueue, walked, traversed, results, nextDocId, assembled>>
  /\ UNCHANGED <<streamVars, dupVars, hookVars, rootVars>>

\* stringifyWriteTransform.end()
StreamEnd ==
  /\ At("end")
  /\ ending' = TRUE
  /\ Advance
  /\ UNCHANGED <<given, config, tree, failure, promise, exit, trace, includes, excludes,
                 walkQueue, walked, traversed, results, nextDocId, assembled>>
  /\ UNCHANGED <<buffer, writing, inflight, finishPos, submitted, started,
                 astFiles, indexJson, dupVars, hookVars, rootVars>>

\* if (config.index) results.push(this._generateForIndex(config)): readFileSync
\* throws when the index file cannot be read.
GenerateForIndex ==
  /\ At("index")
  /\ IF config.index = Undefined
     THEN Advance /\ UNCHANGED <<failure, promise, results>>
     ELSE \/ /\ results' = Append(results, _generateForIndex(config))
             /\ Advance
             /\ UNCHANGED <<failure, promise>>
          \/ /\ Throw("indexRead")
             /\ UNCHANGED results
  /\ UNCHANGED <<given, config, tree, exit, trace, includes, excludes, walkQueue,
                 walked, traversed, nextDocId, assembled>>
  /\ UNCHANGED <<streamVars, dupVars, hookVars, rootVars>>

\* if (config.package) results.push(this._generateForOldPackageJSON(config))
GenerateForOldPackageJSON ==
  /\ At("package")
  /\ results' = IF config.package = Undefined THEN results
                ELSE Append(results, _generateForOldPackageJSON(config))
  /\ Advance
  /\ UNCHANGED <<given, config, tree, failure, promise, exit, trace, includes, excludes,
                 walkQueue, walked, traversed, nextDocId, assembled>>
  /\ UNCHANGED <<streamVars, dupVars, hookVars, rootVars>>

\* results = this._resolveDuplication(results)
ResolveDuplication ==
  /\ At("resolveDuplication")
  /\ assembled' = <<results>>
  /\ results' = _resolveDuplication(results)
  /\ Advance
  /\ UNCHANGED <<given, config, tree, failure, promise, exit, trace, includes, excludes,
                 walkQueue, walked, traversed, nextDocId>>
  /\ UNCHANGED <<streamVars, dupVars, hookVars, rootVars>>

\* results = Plugin.onHandleDocs(results)
PluginOnHandleDocs ==
  /\ At("onHandleDocs")
  /\ \E h \in DocsHooks :
       /\ results' = ApplyDocsHook(h, results)
       /\ docsHook' = Append(docsHook, [arg |-> results, result |-> results'])
  /\ trace' = Append(trace, "onHandleDocs")
  /\ Advance
  /\ UNCHANGED <<given, config, tree, failure, promise, exit, includes, excludes,
                 walkQueue, walked, traversed, nextDocId, assembled>>
  /\ UNCHANGED <<streamVars, dupVars, configHook, rootVars>>

\* fs.outputFileSync(dumpPath, JSON.stringify(results, null, 2))
WriteIndexJson ==
  /\ At("indexJson")
  /\ indexJson' = Append(indexJson, results)
  /\ trace' = Append(trace, "indexJson")
  /\ Advance
  /\ UNCHANGED <<given, config, tree, failure, promise, exit, includes, excludes,
                 walkQueue, walked, traversed, results, nextDocId, assembled>>
  /\ UNCHANGED <<buffer, writing, inflight, ending, finishPos, submitted,
                 started, astFiles, dupVars, hookVars, rootVars>>

\* ------------------------------------------- the AST persistence stream

\* The executor has returned or thrown and the process lives: the event loop
\* delivers the next event.
EventLoopIdle ==
  /\ main \in {"returned", "thrown"}
  /\ exit = <<>>
  /\ finishPos \in {0, Len(OnWriteFinishSequence) + 1}

\* The event of a job's file write stream that transformCallback listens to.
\* A fault: transformCallback listens to the 'end' of the serialization.
TransformCallbackEventEnd == "end"

TransformCallbackEvent == "finish"

\* A fault: the stream takes the job buffered last.
TransformCallbackLast(rest) ==
  IF buffer = <<>>
  THEN /\ writing' = FALSE
       /\ inflight' = rest
       /\ UNCHANGED <<buffer, started>>
  ELSE /\ writing' = TRUE
       /\ inflight' = rest \cup {[job |-> buffer[Len(buffer)], stage |-> "mkdirp"]}
       /\ started' = Append(started, buffer[Len(buffer)])
       /\ buffer' = SubSeq(buffer, 1, Len(buffer) - 1)

\* transformCallback(): the stream takes the next buffered job, if any, and
\* calls the transform for it.  rest: the jobs that stay in flight.
TransformCallback(rest) ==
  IF buffer = <<>>
  THEN /\ writing' = FALSE
       /\ inflight' = rest
       /\ UNCHANGED <<buffer, started>>
  ELSE /\ writing' = TRUE
       /\ inflight' = rest \cup {[job |-> Head(buffer), stage |-> "mkdirp"]}
       /\ started' = Append(started, Head(buffer))
       /\ buffer' = Tail(buffer)

\* The callback of mkdirp: the write stream is opened and the serialization is
\* piped into it, or fatalError(err).
MkdirpCallback ==
  /\ EventLoopIdle
  /\ \E j \in inflight :
     /\ j.stage = "mkdirp"
     /\ \/ /\ inflight' = (inflight \ {j}) \cup {[j EXCEPT !.stage = "piping"]}
           /\ UNCHANGED <<exit, failure>>
        \/ /\ ProcessExit("io")
           /\ UNCHANGED inflight
  /\ UNCHANGED <<given, config, tree, step, main, promise, trace, includes, excludes,
                 walkQueue, walked, traversed, results, nextDocId, assembled>>
  /\ UNCHANGED <<buffer, writing, ending, finishPos, submitted, started,
                 astFiles, indexJson, dupVars, hookVars, rootVars>>

\* 'end' of the serialization: the pipe ends the file write stream.
StringifyEnd ==
  /\ EventLoopIdle
  /\ \E j \in inflight :
     /\ j.stage = "piping"
     /\ LET rest == (inflight \ {j}) \cup {[j EXCEPT !.stage = "flushing"]} IN
        IF TransformCallbackEvent = "end"
        THEN TransformCallback(rest)
        ELSE inflight' = rest /\ UNCHANGED <<buffer, writing, started>>
  /\ UNCHANGED <<runVars, dupVars, hookVars, rootVars>>
  /\ UNCHANGED <<ending, finishPos, submitted, astFiles, indexJson>>

\* 'error' of the serialization: fatalError.
StringifyError ==
  /\ EventLoopIdle
  /\ \E j \in inflight : j.stage = "piping"
  /\ ProcessExit("io")
  /\ UNCHANGED <<given, config, tree, step, main, promise, trace, includes, excludes,
                 walkQueue, walked, traversed, results, nextDocId, assembled>>
  /\ UNCHANGED <<streamVars, dupVars, hookVars, rootVars>>

\* 'error' of the file write stream: fatalError.
FileWriteError ==
  /\ EventLoopIdle
  /\ \E j \in inflight : j.stage \in {"piping", "flushing"}
  /\ ProcessExit("io")
  /\ UNCHANGED <<given, config, tree, step, main, promise, trace, includes, excludes,
                 walkQueue, walked, traversed, results, nextDocId, assembled>>
  /\ UNCHANGED <<streamVars, dupVars, hookVars, rootVars>>

\* stringifyWriteTransform.on('error', fatalError): an error of the stream
\* itself, while it works on a job.
StreamError ==
  /\ EventLoopIdle
  /\ finishPos = 0
  /\ writing
  /\ ProcessExit("io")
  /\ UNCHANGED <<given, config, tree, step, main, promise, trace, includes, excludes,
                 walkQueue, walked, traversed, results, nextDocId, assembled>>
  /\ UNCHANGED <<streamVars, dupVars, hookVars, rootVars>>

\* 'finish' of the file write stream: the file is flushed and closed.
FileWriteFinish ==
  /\ EventLoopIdle
  /\ \E j \in inflight :
     /\ j.stage = "flushing"
     /\ astFiles' = Append(astFiles, j.job)
     /\ IF TransformCallbackEvent = "finish"
        THEN TransformCallback(inflight \ {j})
        ELSE inflight' = inflight \ {j} /\ UNCHANGED <<buffer, writing, started>>
  /\ UNCHANGED <<runVars, dupVars, hookVars, rootVars>>
  /\ UNCHANGED <<ending, finishPos, submitted, indexJson>>

\* A fault: 'finish' does not wait for the writes.
FinishReadyAtEnd(isEnding, isWriting, buffered) == isEnding

\* The stream emits 'finish' once end() has been called and every job written
\* to it has had its transformCallback.
FinishReady(isEnding, isWriting, buffered) ==
  isEnding /\ ~isWriting /\ buffered = <<>>

\* stringifyWriteTransform.on('finish', onWriteFinish): onWriteFinish begins.
StreamFinish ==
  /\ EventLoopIdle
  /\ finishPos = 0
  /\ FinishReady(ending, writing, buffer)
  /\ finishPos' = 1
  /\ UNCHANGED <<runVars, dupVars, hookVars, rootVars>>
  /\ UNCHANGED <<buffer, writing, inflight, ending, submitted, started,
                 astFiles, indexJson>>

AtFinish(name) ==
  /\ exit = <<>>
  /\ finishPos \in 1..Len(OnWriteFinishSequence)
  /\ OnWriteFinishSequence[finishPos] = name

\* onWriteFinish goes on; after its last step, resolve(true).
FinishAdvance ==
  /\ finishPos' = finishPos + 1
  /\ promise' = IF finishPos = Len(OnWriteFinishSequence) /\ promise = "pending"
                THEN "resolved" ELSE promise

\* this._publish(config): Plugin.onPublish(write, copy, read); an exception is
\* caught and ends the process.
Publish ==
  /\ AtFinish("publish")
  /\ trace' = Append(trace, "onPublish")
  /\ \/ /\ FinishAdvance
        /\ UNCHANGED <<exit, failure>>
     \/ /\ ProcessExit("publish")
        /\ UNCHANGED <<finishPos, promise>>
  /\ UNCHANGED <<given, config, tree, step, main, includes, excludes, walkQueue,
                 walked, traversed, results, nextDocId, assembled>>
  /\ UNCHANGED <<buffer, writing, inflight, ending, submitted, started,
                 astFiles, indexJson, dupVars, hookVars, rootVars>>

\* Plugin.onComplete()
PluginOnComplete ==
  /\ AtFinish("onComplete")
  /\ trace' = Append(trace, "onComplete")
  /\ FinishAdvance
  /\ UNCHANGED <<given, config, tree, step, main, failure, exit, includes, excludes,
                 walkQueue, walked, traversed, results, nextDocId, assembled>>
  /\ UNCHANGED <<buffer, writing, inflight, ending, submitted, started,
                 astFiles, indexJson, dupVars, hookVars, rootVars>>

Next ==
  \/ Validate
  \/ CheckOldConfig
  \/ PluginInit
  \/ PluginOnStart
  \/ PluginOnHandleConfig
  \/ SetDefaultConfig
  \/ Setup
  \/ Walk
  \/ WalkCallback
  \/ WalkReturn
  \/ StreamEnd
  \/ GenerateForIndex
  \/ GenerateForOldPackageJSON
  \/ ResolveDuplication
  \/ PluginOnHandleDocs
  \/ WriteIndexJson
  \/ MkdirpCallback
  \/ StringifyEnd
  \/ StringifyError
  \/ FileWriteError
  \/ StreamError
  \/ FileWriteFinish
  \/ StreamFinish
  \/ Publish
  \/ PluginOnComplete

Spec == Init /\ [][Next]_vars

\* The executor runs to its end once started, and the event loop delivers every
\* completion event that is due: a step that can be taken is taken.
FairSpec == Spec /\ WF_vars(Next)

\* ------------------------------------ _resolveDuplication on its own inputs

DupKinds == {"member", "method", "index"}

DupLongnames == {"Foo#x", "Foo#y"}

IdOrders(n) ==
  {f \in [1..n -> 1..n] : \A i, j \in 1..n : i # j => f[i] # f[j]}

\* The record sequences of at most MaxDocs records: any kinds and longnames in
\* any order, the creation-sequence ids unique and in any order; a synthetic
\* record (index) carries no id.
DupInputs ==
  UNION { { [i \in 1..n |->
               [docId |-> IF k[i] = "index" THEN UndefinedId ELSE ids[i],
                kind |-> k[i], longname |-> l[i], file |-> Undefined]] :
            k \in [1..n -> DupKinds], l \in [1..n -> DupLongnames],
            ids \in IdOrders(n) } : n \in 0..MaxDocs }

InitDup ==
  /\ given = BaseConfig
  /\ config = BaseConfig
  /\ tree = {}
  /\ step = 1
  /\ main = "off"
  /\ failure = "none"
  /\ promise = "pending"
  /\ exit = <<>>
  /\ trace = <<>>
  /\ includes = <<>>
  /\ excludes = <<>>
  /\ walkQueue = <<>>
  /\ walked = <<>>
  /\ traversed = <<>>
  /\ results = <<>>
  /\ nextDocId = 1
  /\ assembled = <<>>
  /\ buffer = <<>>
  /\ writing = FALSE
  /\ inflight = {}
  /\ ending = FALSE
  /\ finishPos = 0
  /\ submitted = <<>>
  /\ started = <<>>
  /\ astFiles = <<>>
  /\ indexJson = <<>>
  /\ docsIn \in DupInputs
  /\ docsOut = <<>>
  /\ dupPc = "input"
  /\ configHook = <<>>
  /\ docsHook = <<>>
  /\ rootTree = {}
  /\ rootDesc = <<>>
  /\ rootOut = [callbacks |-> <<>>, threw |-> FALSE]
  /\ rootPc = "off"

\* docsOut = this._resolveDuplication(docsIn)
ResolveDuplicationCall ==
  /\ dupPc = "input"
  /\ docsOut' = _resolveDuplication(docsIn)
  /\ dupPc' = "done"
  /\ UNCHANGED <<docsIn, runVars, streamVars, hookVars, rootVars>>

NextDup == ResolveDuplicationCall

SpecDup == InitDup /\ [][NextDup]_vars

\* ------------------------------------------------------------------ claims

\* ------------------------------------------------ _walkRoot on its own trees

InitRoot ==
  /\ given = BaseConfig
  /\ config = BaseConfig
  /\ tree = {}
  /\ step = 1
  /\ main = "off"
  /\ failure = "none"
  /\ promise = "pending"
  /\ exit = <<>>
  /\ trace = <<>>
  /\ includes = <<>>
  /\ excludes = <<>>
  /\ walkQueue = <<>>
  /\ walked = <<>>
  /\ traversed = <<>>
  /\ results = <<>>
  /\ nextDocId = 1
  /\ assembled = <<>>
  /\ buffer = <<>>
  /\ writing = FALSE
  /\ inflight = {}
  /\ ending = FALSE
  /\ finishPos = 0
  /\ submitted = <<>>
  /\ started = <<>>
  /\ astFiles = <<>>
  /\ indexJson = <<>>
  /\ docsIn = <<>>
  /\ docsOut = <<>>
  /\ dupPc = "off"
  /\ configHook = <<>>
  /\ docsHook = <<>>
  /\ rootTree \in RootTrees
  /\ rootDesc \in [PackageJsons(rootTree) -> Descriptors]
  /\ rootOut = [callbacks |-> <<>>, threw |-> FALSE]
  /\ rootPc = "input"

\* this._walkRoot(config.root, walkRootCallback)
WalkRootCall ==
  /\ rootPc = "input"
  /\ rootOut' = _walkRoot(rootTree, rootDesc, RootDir, TRUE)
  /\ rootPc' = "done"
  /\ UNCHANGED <<rootTree, rootDesc, runVars, streamVars, dupVars, hookVars>>

NextRoot == WalkRootCall

SpecRoot == InitRoot /\ [][NextRoot]_vars

Range(seq) == {seq[i] : i \in 1..Len(seq)}

\* C4: _resolveDuplication removes every record of kind member whose longname
\* is shared by a record of another kind, whether the member's id is lower or
\* higher than that record's, and the records of another kind survive.
C4_MemberYieldsToOtherKind ==
  dupPc = "done" =>
    \A i, k \in 1..Len(docsIn) :
      ( /\ docsIn[i].kind = "member"
        /\ docsIn[k].kind # "member"
        /\ docsIn[k].longname = docsIn[i].longname )
      => /\ docsIn[i] \notin Range(docsOut)
         /\ docsIn[k] \in Range(docsOut)

\* A call on an input where one member has a lower id and another member a
\* higher id than the method of their longname.
C4_Witness ==
  /\ dupPc = "done"
  /\ \E i, j, k \in 1..Len(docsIn) :
       /\ docsIn[i].kind = "member" /\ docsIn[j].kind = "member"
       /\ docsIn[k].kind = "method"
       /\ docsIn[i].longname = docsIn[k].longname
       /\ docsIn[j].longname = docsIn[k].longname
       /\ docsIn[i].docId < docsIn[k].docId
       /\ docsIn[j].docId > docsIn[k].docId

MembersOf(docs, longname) ==
  SelectSeq(docs, LAMBDA doc : doc.kind = "member" /\ doc.longname = longname)

\* C5: of two or more member records of one longname that no record of another
\* kind shares, exactly one survives, the one with the lowest id, wherever the
\* records stand in the input.
C5_LowestMemberSurvives ==
  dupPc = "done" =>
    \A longname \in DupLongnames :
      LET members == MembersOf(docsIn, longname) IN
      ( /\ Len(members) >= 2
        /\ \A k \in 1..Len(docsIn) :
             docsIn[k].longname = longname => docsIn[k].kind = "member" )
      => /\ Len(MembersOf(docsOut, longname)) = 1
         /\ \A i \in 1..Len(members) :
              MembersOf(docsOut, longname)[1].docId <= members[i].docId

\* A call on an input where the member with the lowest id of its longname stands
\* after another member of that longname, and no other kind shares it.
C5_Witness ==
  /\ dupPc = "done"
  /\ \E i, j \in 1..Len(docsIn) :
       /\ i < j
       /\ docsIn[i].kind = "member" /\ docsIn[j].kind = "member"
       /\ docsIn[i].longname = docsIn[j].longname
       /\ docsIn[j].docId < docsIn[i].docId
       /\ \A k \in 1..Len(docsIn) :
            docsIn[k].longname = docsIn[i].longname => docsIn[k].kind = "member"

\* out is in taken from seq by dropping elements and keeping the order.
IsSubsequence(out, seq) ==
  \E f \in [1..Len(out) -> 1..Len(seq)] :
    /\ \A i, j \in 1..Len(out) : i < j => f[i] < f[j]
    /\ \A i \in 1..Len(out) : out[i] = seq[f[i]]

\* C6: the output of _resolveDuplication is an order-preserving subsequence of
\* its input and holds every record whose kind is not member, the records
\* without an id among them.
C6_OnlyMembersRemoved ==
  dupPc = "done" =>
    /\ IsSubsequence(docsOut, docsIn)
    /\ SelectSeq(docsOut, LAMBDA doc : doc.kind # "member")
         = SelectSeq(docsIn, LAMBDA doc : doc.kind # "member")

\* A call that removes a member from between a record without an id and the
\* method that shares the member's longname.
C6_Witness ==
  /\ dupPc = "done"
  /\ Len(docsOut) < Len(docsIn)
  /\ \E i, j, k \in 1..Len(docsIn) :
       /\ i < j /\ j < k
       /\ docsIn[i].kind = "index" /\ docsIn[i].docId = UndefinedId
       /\ docsIn[j].kind = "member"
       /\ docsIn[k].kind = "method" /\ docsIn[k].longname = docsIn[j].longname
       /\ docsOut = <<docsIn[i], docsIn[k]>>

\* The lifecycle of a run that completes normally.
Lifecycle ==
  << "init", "onStart", "onHandleConfig", "walk", "onHandleDocs", "indexJson",
     "onPublish", "onComplete" >>

IsPrefix(s, t) == Len(s) <= Len(t) /\ \A i \in 1..Len(s) : s[i] = t[i]

\* C1: in a run that completes normally the lifecycle events occur once each
\* and in the order init, onStart, onHandleConfig, walk, onHandleDocs, write of
\* index.json, onPublish, onComplete; while nothing has failed the events so
\* far are the first events of that order.
C1_LifecycleOrder ==
  /\ failure = "none" => IsPrefix(trace, Lifecycle)
  /\ promise = "resolved" => trace = Lifecycle

\* A run that has completed normally after writing several AST files.
C1_Witness ==
  /\ promise = "resolved"
  /\ Len(astFiles) >= 2
  /\ indexJson # <<>>

\* C2: at most one job is in flight, and a job's persistence work does not
\* begin before the file write of every job started before it has finished.
C2_OneJobInFlight ==
  /\ Cardinality(inflight) <= 1
  /\ \A k \in 1..Len(started) :
       k < Len(started) => started[k] \in Range(astFiles)
  /\ \A k \in 1..Len(started) :
       started[k] \notin Range(astFiles) => \E j \in inflight : j.job = started[k]

\* The second job is in flight after the first has finished, a third waits.
C2_Witness ==
  /\ Len(started) = 2
  /\ Len(astFiles) = 1
  /\ buffer # <<>>
  /\ \E j \in inflight : j.job = started[2] /\ j.stage = "flushing"

\* C3: the publish phase starts only after the driver has closed the pipeline
\* and every job submitted during the walk has completed its write: never
\* while a job is queued or in flight.
C3_PublishAfterDrain ==
  finishPos >= 1 =>
    /\ ending
    /\ walkQueue = <<>>
    /\ buffer = <<>>
    /\ inflight = {}
    /\ ~writing
    /\ \A k \in 1..Len(submitted) : submitted[k] \in Range(astFiles)

\* onWriteFinish begins after several jobs.
C3_Witness ==
  /\ finishPos = 1
  /\ Len(submitted) >= 2

\* C7: a file the walker has yielded has been handed to _traverse if and
\* only if its relative path matches an include pattern and no exclude
\* pattern; a path that matches an exclude pattern is never parsed and never
\* submitted as a persistence job.
C7_IncludeExclude ==
  LET inc(f) == \E i \in 1..Len(includes) : Match(f, includes[i])
      exc(f) == \E i \in 1..Len(excludes) : Match(f, excludes[i])
  IN  /\ \A k \in 1..Len(walked) :
           (\E n \in 1..Len(traversed) : traversed[n].file = walked[k])
             <=> (inc(walked[k]) /\ ~exc(walked[k]))
      /\ \A n \in 1..Len(traversed) : traversed[n].file \in Range(walked)
      /\ \A n \in 1..Len(submitted) : ~exc(submitted[n])

\* The walker has yielded a file that matches an include and an exclude pattern,
\* a file that matches no include pattern, and a file that was parsed.
C7_Witness ==
  LET inc(f) == \E i \in 1..Len(includes) : Match(f, includes[i])
      exc(f) == \E i \in 1..Len(excludes) : Match(f, excludes[i])
  IN  /\ \E k \in 1..Len(walked) : inc(walked[k]) /\ exc(walked[k])
      /\ \E k \in 1..Len(walked) : ~inc(walked[k])
      /\ traversed # <<>>

\* The configurations the pre-flight validation is to refuse.
Refused(c) ==
  \/ c.root # Undefined /\ (c.source # Undefined \/ c.package # Undefined)
  \/ c.root = Undefined /\ c.source = Undefined
  \/ c.destination = Undefined

\* C8: for a configuration with root set together with source or package, or
\* with neither root nor source, or without destination, the validation fails
\* before any plugin hook is invoked, any directory read, any file parsed and
\* anything written: no lifecycle event of the run occurs.
C8_PreflightValidation ==
  Refused(given) =>
    /\ trace = <<>>
    /\ walked = <<>> /\ walkQueue = <<>>
    /\ traversed = <<>>
    /\ submitted = <<>> /\ started = <<>> /\ astFiles = <<>>
    /\ indexJson = <<>>
    /\ finishPos = 0
    /\ exit = <<>>
    /\ step = 1
    /\ main \in {"running", "thrown"}
    /\ main = "thrown" => failure = "validation" /\ promise = "rejected"

\* The validation has refused a configuration that lacks only its destination.
C8_Witness ==
  /\ given.destination = Undefined
  /\ given.source # Undefined /\ given.root = Undefined
  /\ main = "thrown"
  /\ failure = "validation"

\* The accepted files with the given outcome, among those handed to _traverse.
FilesWith(outcome) ==
  {traversed[n].file : n \in {m \in 1..Len(traversed) : traversed[m].outcome = outcome}}

\* The records of seq that come from file f, reduced to kind and longname.
RecordsOf(f, seq) ==
  LET own == SelectSeq(seq, LAMBDA doc : doc.file = f)
  IN  [i \in 1..Len(own) |-> [kind |-> own[i].kind, longname |-> own[i].longname]]

\* No record and no persistence job comes from a file whose parse failed.
NothingFromFailedParse ==
  /\ \A doc \in Range(results) : doc.file \notin FilesWith("parseError")
  /\ \A n \in 1..Len(indexJson) :
       \A doc \in Range(indexJson[n]) : doc.file \notin FilesWith("parseError")
  /\ \A job \in Range(submitted) : job \notin FilesWith("parseError")

\* A parse failure does not end the walk: every file of the tree is yielded,
\* and the records of every file that parsed are collected, in the order of
\* the files.
WalkGoesOn ==
  /\ failure = "extraction" =>
       traversed[Len(traversed)].outcome = "extractError"
  /\ assembled # <<>> =>
       /\ walked = _walk(tree, SourceDir)
       /\ \A f \in FilesWith("ok") : RecordsOf(f, assembled[1]) = FileDocs(f)
       /\ \A f \in FilesWith("ok") : f \in Range(submitted)

\* C9, as claimed: after a parser failure on one accepted file, every record
\* of every other accepted file that parsed is in the record sequence written
\* to index.json.
C9_AllRecordsInIndexJson ==
  (FilesWith("parseError") # {} /\ indexJson # <<>>) =>
    \A f \in FilesWith("ok") : RecordsOf(f, indexJson[1]) = FileDocs(f)

\* C9, amended: a parser failure on an accepted file is recoverable.  The file
\* contributes no record and no job, the walk continues, the records of every
\* other accepted file that parsed are all in the sequence given to
\* _resolveDuplication, and each of them that _resolveDuplication keeps is
\* written to index.json; while nothing else fails the run does not stop
\* before the promise is resolved.
C9_ParseFailureRecoverable ==
  /\ NothingFromFailedParse
  /\ WalkGoesOn
  /\ indexJson # <<>> =>
       \A doc \in Range(_resolveDuplication(assembled[1])) :
          doc \in Range(indexJson[1])
  /\ failure = "none" => (promise = "resolved" \/ ENABLED Next)

\* A run has completed normally although the parse of the second of three
\* accepted files failed; records of the first and of the third file are in
\* index.json.
C9_Witness ==
  /\ promise = "resolved"
  /\ Len(traversed) = 3
  /\ traversed[1].outcome = "ok"
  /\ traversed[2].outcome = "parseError"
  /\ traversed[3].outcome = "ok"
  /\ \E doc \in Range(indexJson[1]) : doc.file = traversed[1].file
  /\ \E doc \in Range(indexJson[1]) : doc.file = traversed[3].file
  /\ trace = Lifecycle

\* C10, as claimed: once the extraction collaborator has raised an error, no
\* further file is walked or parsed, no further persistence job is submitted
\* or started, and no lifecycle event occurs.
C10_ExtractionErrorStopsRun ==
  [][ failure = "extraction" =>
        /\ walked' = walked
        /\ traversed' = traversed
        /\ submitted' = submitted
        /\ started' = started
        /\ indexJson' = indexJson
        /\ trace' = trace ]_vars

\* C11: a failure at any stage of a persistence job (mkdirp, the file write
\* stream, the serialization, the stream itself) ends the process with exit
\* status 1; from then on nothing happens: no later job begins, the failed job
\* is not started again, and onPublish, onComplete and the resolution of the
\* promise have not happened and never happen.
C11_IoFailureIsFatal ==
  [][ /\ failure' = "io" =>
           /\ exit' = <<1>>
           /\ promise' # "resolved"
           /\ finishPos' = 0
           /\ ~Includes(trace', "onPublish")
           /\ ~Includes(trace', "onComplete")
           /\ \E j \in inflight' : j.job = started'[Len(started')]
      /\ failure = "io" => UNCHANGED vars ]_vars

\* A job has failed while another one was queued behind it.
C11_Witness ==
  /\ failure = "io"
  /\ exit = <<1>>
  /\ buffer # <<>>
  /\ astFiles # <<>>
  /\ \E j \in inflight : j.stage = "flushing"

\* entryPath lies in the directory dirPath, at any depth.
Inside(entryPath, dirPath) ==
  \/ dirPath = RootDir
  \/ RootParent(entryPath) = dirPath
  \/ RootParent(RootParent(entryPath)) = dirPath

\* The directories of the tree whose descriptor loads.
PackageDirs(t, d) ==
  {dirPath \in {RootDir, "pkg"} :
     /\ RootJoin(dirPath, "package.json") \in t
     /\ d[RootJoin(dirPath, "package.json")] # UnparseableDescriptor}

\* The resolved source subdirectory of a directory whose descriptor loads.
SrcDirOf(d, dirPath) ==
  RootJoin(dirPath, SrcName(d[RootJoin(dirPath, "package.json")]))

\* The positions of the callbacks made for the descriptor of dirPath.
DescriptorCalls(out, dirPath) ==
  {i \in 1..Len(out.callbacks) :
     /\ out.callbacks[i].path = RootJoin(dirPath, "package.json")
     /\ out.callbacks[i].packageObj # <<>>}

\* The walk from the root meets dirPath: it is the root, or the first
\* directory of a root that holds no descriptor.
WalkMeets(t, dirPath) == dirPath = RootDir \/ "package.json" \notin t

FilesEmitted(out) ==
  {out.callbacks[i].path : i \in {k \in 1..Len(out.callbacks) :
                                    out.callbacks[k].packageObj = <<>>}}

\* C13: when the descriptor of a directory the walk meets loads but its
\* resolved source subdirectory does not exist or is not a directory, _walkRoot
\* makes no file callback for that package and returns normally: no error
\* leaves the walk.
C13_MissingSourceDirTolerated ==
  rootPc = "done" =>
    \A dirPath \in PackageDirs(rootTree, rootDesc) :
      WalkMeets(rootTree, dirPath)
        /\ ~IsDirectory(rootTree, SrcDirOf(rootDesc, dirPath)) =>
          /\ ~rootOut.threw
          /\ \A f \in FilesEmitted(rootOut) : ~Inside(f, dirPath) \/ dirPath = RootDir
          /\ dirPath = RootDir => FilesEmitted(rootOut) = {}

\* The directories of the tree whose descriptor does not load.
BrokenPackageDirs(t, d) ==
  {dirPath \in {RootDir, "pkg"} :
     /\ RootJoin(dirPath, "package.json") \in t
     /\ d[RootJoin(dirPath, "package.json")] = UnparseableDescriptor}

\* The files of the tree that lie outside dirPath, in a root without descriptor.
FilesBeside(t, dirPath) ==
  {f \in t : f \notin RootDirNames /\ ~Inside(f, dirPath)}

\* C14: when the descriptor of a directory the walk meets does not load,
\* _walkRoot makes no callback for anything in that directory and returns
\* normally, and the files of its sibling directories are still emitted.
C14_UnparseableDescriptorSkipsSubtree ==
  rootPc = "done" =>
    \A dirPath \in BrokenPackageDirs(rootTree, rootDesc) :
      WalkMeets(rootTree, dirPath) =>
        /\ ~rootOut.threw
        /\ \A i \in 1..Len(rootOut.callbacks) :
             ~Inside(rootOut.callbacks[i].path, dirPath)
        /\ dirPath # RootDir => FilesBeside(rootTree, dirPath) \subseteq FilesEmitted(rootOut)

RECURSIVE FileRecords(_, _, _)
\* The records of the files of trav that parsed, from position i on, in the
\* order of trav, numbered from docId on.
FileRecords(trav, i, docId) ==
  IF i > Len(trav) THEN <<>>
  ELSE IF trav[i].outcome = "ok"
       THEN NewDocs(trav[i].file, docId)
              \o FileRecords(trav, i + 1, docId + Len(NewDocs(trav[i].file, docId)))
       ELSE FileRecords(trav, i + 1, docId)

\* The file records in traversal order, then the index record, then the legacy
\* package record.
ExpectedRecords ==
  FileRecords(traversed, 1, 1)
    \o (IF config.index = Undefined THEN <<>> ELSE <<_generateForIndex(config)>>)
    \o (IF config.package = Undefined THEN <<>>
        ELSE <<_generateForOldPackageJSON(config)>>)

C16_PublishFailureIsFatal ==
  [][ /\ failure' = "publish" =>
           /\ exit' = <<1>>
           /\ promise' # "resolved"
           /\ ~Includes(trace', "onComplete")
           /\ trace'[Len(trace')] = "onPublish"
      /\ failure = "publish" => UNCHANGED vars ]_vars

\* The publish phase of a run that wrote AST files and index.json has raised an
\* exception.
C16_Witness ==
  /\ failure = "publish"
  /\ exit = <<1>>
  /\ promise = "pending"
  /\ astFiles # <<>>
  /\ indexJson # <<>>

\* A synthetic record has been appended, _resolveDuplication or onHandleDocs
\* has been called, or index.json has been written.
AssemblyBegun ==
  \/ \E i \in 1..Len(results) : results[i].kind \in {"index", "packageJSON"}
  \/ assembled # <<>>
  \/ docsHook # <<>>
  \/ indexJson # <<>>

\* The persistence pipeline has drained: no job is queued or in flight.
Drained == buffer = <<>> /\ inflight = {} /\ ~writing

\* C17, as stated: the synthetic records are appended, _resolveDuplication and
\* onHandleDocs run and index.json is written only once the walk is over and
\* the persistence pipeline has drained.
C17_AssemblyAfterDrain ==
  AssemblyBegun => walkQueue = <<>> /\ Drained

\* C17, amended: these steps happen only once every file has been submitted
\* and end() has been called on the stream, and they are all over before any
\* persistence job completes: while the executor runs no AST file is finished
\* and onWriteFinish has not begun.
C17_AssemblyAfterEnd ==
  /\ AssemblyBegun =>
       /\ ending
       /\ walkQueue = <<>>
       /\ walked = _walk(tree, SourceDir)
       /\ Len(submitted) = Cardinality({i \in 1..Len(traversed) :
                                          traversed[i].outcome = "ok"})
  /\ main = "running" =>
       /\ astFiles = <<>>
       /\ finishPos = 0
       /\ Len(started) <= 1
       /\ Len(buffer) = Len(submitted) - Len(started)

\* index.json is written while a job is in flight and another is queued.
C17_Witness ==
  /\ indexJson # <<>>
  /\ finishPos = 0
  /\ buffer # <<>>
  /\ inflight # {}
  /\ astFiles = <<>>

\* The files handed to _traverse that parsed and were extracted, in order.
ParsedFiles ==
  LET ok == SelectSeq(traversed, LAMBDA e : e.outcome = "ok")
  IN  [i \in 1..Len(ok) |-> ok[i].file]

\* C18: the persistence jobs are the files that were accepted and parsed, in
\* traversal order; they are begun in that order, one after the other is
\* finished, none twice and none skipped; and once the publish phase has
\* started there is exactly one finished AST file for each of them, in that
\* order, and none for any other file.
C18_FifoPersistence ==
  /\ submitted = ParsedFiles
  /\ submitted = started \o buffer
  /\ IsPrefix(astFiles, started)
  /\ Len(started) <= Len(astFiles) + 1
  /\ \A i, j \in 1..Len(submitted) : i # j => submitted[i] # submitted[j]
  /\ \A f \in Range(submitted) : Accepted(f, includes, excludes) /\ Includes(walked, f)
  /\ finishPos >= 1 => astFiles = ParsedFiles /\ Drained /\ failure # "io"

\* The publish phase starts after three jobs were persisted, in a run that
\* also met a file the matcher rejected.
C18_Witness ==
  /\ finishPos = 1
  /\ failure = "none"
  /\ Len(astFiles) = 3
  /\ Len(walked) > Len(traversed)

\* The executor has passed the step name of its body.
Passed(name) ==
  \E i \in 1..Len(MainSequence) :
     /\ MainSequence[i] = name
     /\ step > i \/ main = "returned"

\* The synthetic records carry the index and package paths of c.
SyntheticFrom(c) ==
  \A i \in 1..Len(results) :
     /\ results[i].kind = "index" => results[i].longname = c.index
     /\ results[i].kind = "packageJSON" => results[i].longname = c.package

\* C19, as stated: Plugin.onHandleConfig receives the already-defaulted
\* configuration, and the configuration it returns is the one the run uses,
\* unmodified.
C19_HookAfterDefaulting ==
  configHook # <<>> =>
    /\ configHook[1].arg = _setDefaultConfig(given)
    /\ config = configHook[1].result

\* C19, amended: Plugin.onHandleConfig is called once, before defaulting, with
\* the configuration generate was given; defaulting is applied once, to the
\* configuration the hook returned, before the traversal; and the defaulted
\* configuration is the one used from then on by the matcher and the synthetic
\* records.
C19_DefaultingAfterHook ==
  /\ Len(configHook) <= 1
  /\ configHook = <<>> => config = given /\ ~Passed("onHandleConfig")
  /\ configHook # <<>> =>
       /\ Passed("onHandleConfig")
       /\ configHook[1].arg = given
       /\ ~Passed("setDefaultConfig") => config = configHook[1].result
       /\ Passed("setDefaultConfig") =>
            config = _setDefaultConfig(configHook[1].result)
  /\ Passed("walk") => Passed("setDefaultConfig")
  /\ Passed("setup") =>
       /\ includes = config.includes /\ includes # <<>>
       /\ excludes = config.excludes /\ excludes # <<>>
  /\ SyntheticFrom(config)

\* The hook has replaced the excludes of a configuration without includes, and
\* the run has written index.json with the defaults filled in afterwards.
C19_Witness ==
  /\ indexJson # <<>>
  /\ given.includes = <<>>
  /\ configHook[1].arg.includes = <<>>
  /\ configHook[1].result.excludes = <<"^lib/">>
  /\ config.includes = <<"\\.js$">>
  /\ config.excludes = <<"^lib/">>
  /\ \E i \in 1..Len(results) : results[i].longname = "./README.md"

\* C20: for a valid configuration, every run in which no extraction error, no
\* persistence I/O failure and no publish exception occurs (and the index file
\* can be read) eventually resolves the promise, after onWriteFinish has run
\* once and Plugin.onComplete has returned.
C20_EventuallyResolved ==
  ValidConfig(given) /\ ~HasOldKey(given) =>
    <>( \/ failure \in {"extraction", "io", "publish", "indexRead"}
        \/ /\ promise = "resolved"
           /\ finishPos = Len(OnWriteFinishSequence) + 1
           /\ trace[Len(trace)] = "onComplete" )

====
